---------------------------- MODULE Spec2Model ----------------------------
(***************************************************************************)
(* A model of the easy_collections crate: EasySet (src/src/set.rs), a      *)
(* wrapper around HashSet with Python-style operators and ordering, and    *)
(* EasyMap (src/src/map.rs), a wrapper around HashMap with a default       *)
(* value for absent keys.                                                  *)
(*                                                                         *)
(* A method is an operator from the receiver (and arguments) to a record   *)
(* [self |-> the receiver afterwards, out |-> the returned value], or to   *)
(* the returned value alone when it takes the receiver by shared           *)
(* reference.  Three specifications drive the operators:                   *)
(*   SpecSet   two sets a, b under insert/remove/toggle/cmp/==/operators   *)
(*   SpecMap   one map under insert/remove/index/index_mut/write           *)
(*   SpecConv  the conversions of a sequence of pairs into a map           *)
(***************************************************************************)
EXTENDS Integers, Sequences, FiniteSets, TLC

\* ------------------------------------------------------------- bounds
NumKeys == 3
NumVals == 2
MaxLen == 3

Keys == 1..NumKeys
\* The value type V is modelled as a small range of integers (usize in the
\* crate's tests); V::default() is 0.
TypeDefault == 0
Vals == TypeDefault..(TypeDefault + NumVals - 1)

VARIABLES
    a, b,       \* two EasySet values (their `inner` HashSet)
    pa, pb,     \* a and b as they were before the last operation
    sop,        \* the last EasySet operation
    sargs,      \* its arguments: <<>>, <<k>> or <<"a" or "b", k>>
    sout,       \* what it returned
    map,        \* an EasyMap: [inner |-> HashMap, default |-> V]
    d0,         \* the default the map was created with
    pre,        \* map as it was before the last operation
    mop,        \* the last EasyMap operation
    margs,      \* its arguments: <<k>>, <<v>> or <<k, v>>
    mout,       \* what it returned (Option<V> as <<>> or <<v>>, or a V)
    ref,        \* <<k>> while a `&mut V` into k's slot is live, else <<>>
    fresh,      \* whether the index_mut that gave the live `&mut V` inserted k
    written,    \* the keys ever given to insert or assigned through `&mut`
    vec,        \* the sequence of (K, V) pairs to convert
    conv,       \* the EasyMap the last conversion built
    cop         \* the last conversion

setVars == <<a, b, pa, pb, sop, sargs, sout>>
mapVars == <<map, d0, pre, mop, margs, mout, ref, fresh, written>>
convVars == <<vec, conv, cop>>
vars == <<a, b, pa, pb, sop, sargs, sout, map, d0, pre, mop, margs, mout,
          ref, fresh, written, vec, conv, cop>>

\* ---------------------------------------------------- std::collections
\* HashSet::iter: the elements in some order (here ascending; no operator
\* below depends on the order).
RECURSIVE iter(_)
iter(S) ==
    IF S = {} THEN <<>>
    ELSE LET x == CHOOSE y \in S : \A z \in S : y <= z
         IN <<x>> \o iter(S \ {x})

\* HashSet::is_subset
is_subset(self, other) ==
    IF Cardinality(self) <= Cardinality(other)
    THEN \A v \in self : v \in other
    ELSE FALSE

\* HashSet::is_superset
is_superset(self, other) == is_subset(other, self)

\* HashSet::difference, as the sequence its iterator yields
difference(self, other) == SelectSeq(iter(self), LAMBDA x : x \notin other)

\* HashSet::intersection: walks the smaller set
intersection(self, other) ==
    IF Cardinality(self) <= Cardinality(other)
    THEN SelectSeq(iter(self), LAMBDA x : x \in other)
    ELSE SelectSeq(iter(other), LAMBDA x : x \in self)

\* HashSet::union: the larger set, then what the smaller adds
union(self, other) ==
    IF Cardinality(self) >= Cardinality(other)
    THEN iter(self) \o difference(other, self)
    ELSE iter(other) \o difference(self, other)

\* HashSet::symmetric_difference
symmetric_difference(self, other) ==
    difference(self, other) \o difference(other, self)

\* ------------------------------------------------------------- EasySet
EasySet_new == {}

EasySet_insert(self, k) == [self |-> self \cup {k}, out |-> k \notin self]

contains(self, k) == k \in self

EasySet_remove(self, k) == [self |-> self \ {k}, out |-> k \in self]

toggle_returns_new_state(self, k) ==
    IF contains(self, k)
    THEN [self |-> EasySet_remove(self, k).self, out |-> FALSE]
    ELSE [self |-> EasySet_insert(self, k).self, out |-> TRUE]

toggle(self, k) ==
    LET contained_key == contains(self, k)
    IN  IF contains(self, k)
        THEN [self |-> EasySet_remove(self, k).self, out |-> contained_key]
        ELSE [self |-> EasySet_insert(self, k).self, out |-> contained_key]

\* FromIterator for EasySet: insert every item into a new set
RECURSIVE EasySet_collect(_, _)
EasySet_collect(set, s) ==
    IF s = <<>> THEN set
    ELSE EasySet_collect(EasySet_insert(set, Head(s)).self, Tail(s))

EasySet_from_iter(s) == EasySet_collect(EasySet_new, s)

\* derive(PartialEq)
eq(self, other) == self = other

cmp_no_equal_branch(self, other) ==
    IF is_subset(self, other) THEN "Less" ELSE "Greater"

cmp_superset_first(self, other) ==
    IF is_superset(self, other) THEN "Greater"
    ELSE IF is_subset(self, other) THEN "Less"
    ELSE "Equal"

cmp(self, other) ==
    IF is_subset(self, other) THEN "Less"
    ELSE IF is_superset(self, other) THEN "Greater"
    ELSE "Equal"

\* PartialOrd::partial_cmp, and the `<` and `>` it provides
partial_cmp(self, other) == <<cmp(self, other)>>
lt(self, other) == partial_cmp(self, other) = <<"Less">>
gt(self, other) == partial_cmp(self, other) = <<"Greater">>

\* From<&EasySet<K>> for EasySet<K>
From_ref(easy) == easy

\* impl_bit_op!: `&a op rhs`
bitand(self, rhs) == EasySet_from_iter(intersection(self, From_ref(rhs)))
bitor(self, rhs) == EasySet_from_iter(union(self, From_ref(rhs)))
bitxor_as_union(self, rhs) == EasySet_from_iter(union(self, From_ref(rhs)))
bitxor(self, rhs) == EasySet_from_iter(symmetric_difference(self, From_ref(rhs)))
sub(self, rhs) == EasySet_from_iter(difference(self, From_ref(rhs)))

\* impl_bit_op!: `a op= rhs`
bitand_assign(self, rhs) == EasySet_from_iter(intersection(self, From_ref(rhs)))
bitor_assign(self, rhs) == EasySet_from_iter(union(self, From_ref(rhs)))
bitxor_assign(self, rhs) == EasySet_from_iter(symmetric_difference(self, From_ref(rhs)))
sub_assign_reversed(self, rhs) == EasySet_from_iter(difference(From_ref(rhs), self))
sub_assign(self, rhs) == EasySet_from_iter(difference(self, From_ref(rhs)))

\* ------------------------------------------------------- std HashMap
\* HashMap::get: Option<&V> as <<>> or <<v>>
get(inner, key) == IF key \in DOMAIN inner THEN <<inner[key]>> ELSE <<>>

\* Option::unwrap_or
unwrap_or(opt, dflt) == IF opt = <<>> THEN dflt ELSE opt[1]

\* HashMap::insert: the mapping afterwards
hm_insert(inner, k, v) == [x \in DOMAIN inner \cup {k} |-> IF x = k THEN v ELSE inner[x]]

\* HashMap::remove: the mapping afterwards
hm_remove(inner, k) == [x \in DOMAIN inner \ {k} |-> inner[x]]

\* HashMap::entry(key).or_insert(value): the mapping afterwards
entry_or_insert(inner, key, value) ==
    IF key \in DOMAIN inner THEN inner ELSE hm_insert(inner, key, value)

\* ------------------------------------------------------------- EasyMap
\* HashMap::new
hm_new == [x \in {} |-> TypeDefault]

new_with_default(default) == [inner |-> hm_new, default |-> default]

EasyMap_new == new_with_default(TypeDefault)

EasyMap_insert(self, k, v) ==
    [self |-> [self EXCEPT !.inner = hm_insert(self.inner, k, v)],
     out |-> get(self.inner, k)]

EasyMap_remove(self, k) ==
    [self |-> [self EXCEPT !.inner = hm_remove(self.inner, k)],
     out |-> get(self.inner, k)]

\* Index::index: the value the returned reference points at
index_default_only(self, key) == self.default

index(self, key) == unwrap_or(get(self.inner, key), self.default)

\* IndexMut::index_mut: self afterwards; the returned `&mut V` points into
\* self.inner[key]
index_mut_overwrite(self, key) ==
    [self EXCEPT !.inner = hm_insert(self.inner, key, self.default)]

index_mut(self, key) ==
    [self EXCEPT !.inner = entry_or_insert(self.inner, key, self.default)]

\* `*r = v` for the `&mut V` that index_mut(self, key) returned: r points into
\* the map's own slot, which holds a clone of the default, not the default
write_aliasing_default(self, key, v) ==
    [self EXCEPT !.inner = hm_insert(self.inner, key, v), !.default = v]

write(self, key, v) == [self EXCEPT !.inner = hm_insert(self.inner, key, v)]

\* FromIterator<(K, V)> for EasyMap: insert every pair into map!(V::default())
RECURSIVE EasyMap_collect(_, _)
EasyMap_collect(set, s) ==
    IF s = <<>> THEN set
    ELSE EasyMap_collect(EasyMap_insert(set, Head(s)[1], Head(s)[2]).self, Tail(s))

EasyMap_from_iter_first_wins(s) ==
    LET RECURSIVE go(_, _)
        go(set, t) ==
            IF t = <<>> THEN set
            ELSE go([set EXCEPT !.inner = entry_or_insert(set.inner, Head(t)[1], Head(t)[2])],
                    Tail(t))
    IN go(new_with_default(TypeDefault), s)

EasyMap_from_iter(s) == EasyMap_collect(new_with_default(TypeDefault), s)

\* From<Vec<(K, V)>>: v.into_iter().collect()
From_Vec(v) == EasyMap_from_iter(v)

\* From<&[(K, V)]>: v.iter().cloned().collect()
From_slice(v) == EasyMap_from_iter([i \in DOMAIN v |-> v[i]])

\* ------------------------------------------------ bounded input domains
RECURSIVE SeqsUpTo(_, _)
SeqsUpTo(S, n) ==
    IF n = 0 THEN {<<>>}
    ELSE LET shorter == SeqsUpTo(S, n - 1)
         IN shorter \cup {Append(t, x) : t \in shorter, x \in S}

Pairs == Keys \X Vals

\* ------------------------------------------------------ initial states
SetInit ==
    /\ a = EasySet_new /\ b = EasySet_new
    /\ pa = EasySet_new /\ pb = EasySet_new
    /\ sop = "new" /\ sargs = <<>> /\ sout = <<>>

MapInitWith(d) ==
    /\ map = new_with_default(d) /\ pre = new_with_default(d) /\ d0 = d
    /\ mop = "new" /\ margs = <<>> /\ mout = <<>>
    /\ ref = <<>> /\ fresh = FALSE /\ written = {}

ConvInitWith(v) ==
    /\ vec = v /\ conv = EasyMap_new /\ cop = "none"

\* ----------------------------------------------------- EasySet actions
\* t.insert(k), for t one of the two sets
Insert(t, k) ==
    /\ a' = IF t = "a" THEN EasySet_insert(a, k).self ELSE a
    /\ b' = IF t = "b" THEN EasySet_insert(b, k).self ELSE b
    /\ sout' = IF t = "a" THEN EasySet_insert(a, k).out ELSE EasySet_insert(b, k).out
    /\ pa' = a /\ pb' = b /\ sop' = "insert" /\ sargs' = <<t, k>>
    /\ UNCHANGED <<mapVars, convVars>>

\* t.remove(&k)
Remove(t, k) ==
    /\ a' = IF t = "a" THEN EasySet_remove(a, k).self ELSE a
    /\ b' = IF t = "b" THEN EasySet_remove(b, k).self ELSE b
    /\ sout' = IF t = "a" THEN EasySet_remove(a, k).out ELSE EasySet_remove(b, k).out
    /\ pa' = a /\ pb' = b /\ sop' = "remove" /\ sargs' = <<t, k>>
    /\ UNCHANGED <<mapVars, convVars>>

\* a.contains(&k)
Contains(k) ==
    /\ sout' = contains(a, k)
    /\ pa' = a /\ pb' = b /\ sop' = "contains" /\ sargs' = <<k>>
    /\ UNCHANGED <<a, b, mapVars, convVars>>

\* a.toggle(k)
Toggle(k) ==
    /\ a' = toggle(a, k).self
    /\ sout' = toggle(a, k).out
    /\ pa' = a /\ pb' = b /\ sop' = "toggle" /\ sargs' = <<k>>
    /\ UNCHANGED <<b, mapVars, convVars>>

\* a.cmp(&b); `a < b` and `a > b` read the same Ordering through partial_cmp
Cmp ==
    /\ sout' = cmp(a, b)
    /\ pa' = a /\ pb' = b /\ sop' = "cmp" /\ sargs' = <<>>
    /\ UNCHANGED <<a, b, mapVars, convVars>>

\* a == b
Eq ==
    /\ sout' = eq(a, b)
    /\ pa' = a /\ pb' = b /\ sop' = "eq" /\ sargs' = <<>>
    /\ UNCHANGED <<a, b, mapVars, convVars>>

\* &a & &b, &a | &b, &a ^ &b, &a - &b
BitOp(o) ==
    /\ sout' = CASE o = "bitand" -> bitand(a, b)
                 [] o = "bitor" -> bitor(a, b)
                 [] o = "bitxor" -> bitxor(a, b)
                 [] o = "sub" -> sub(a, b)
    /\ pa' = a /\ pb' = b /\ sop' = o /\ sargs' = <<>>
    /\ UNCHANGED <<a, b, mapVars, convVars>>

\* a &= &b, a |= &b, a ^= &b, a -= &b
BitOpAssign(o) ==
    /\ a' = CASE o = "bitand_assign" -> bitand_assign(a, b)
              [] o = "bitor_assign" -> bitor_assign(a, b)
              [] o = "bitxor_assign" -> bitxor_assign(a, b)
              [] o = "sub_assign" -> sub_assign(a, b)
    /\ sout' = <<>>
    /\ pa' = a /\ pb' = b /\ sop' = o /\ sargs' = <<>>
    /\ UNCHANGED <<b, mapVars, convVars>>

BitOps == {"bitand", "bitor", "bitxor", "sub"}
BitOpAssigns == {"bitand_assign", "bitor_assign", "bitxor_assign", "sub_assign"}

SetNext ==
    \/ \E t \in {"a", "b"}, k \in Keys : Insert(t, k)
    \/ \E t \in {"a", "b"}, k \in Keys : Remove(t, k)
    \/ \E k \in Keys : Contains(k)
    \/ \E k \in Keys : Toggle(k)
    \/ Cmp
    \/ Eq
    \/ \E o \in BitOps : BitOp(o)
    \/ \E o \in BitOpAssigns : BitOpAssign(o)

\* ----------------------------------------------------- EasyMap actions
\* map.insert(k, v)
MapInsert(k, v) ==
    /\ map' = EasyMap_insert(map, k, v).self
    /\ mout' = EasyMap_insert(map, k, v).out
    /\ pre' = map /\ mop' = "insert" /\ margs' = <<k, v>>
    /\ ref' = <<>> /\ fresh' = FALSE /\ written' = written \cup {k}
    /\ UNCHANGED <<d0, setVars, convVars>>

\* map.remove(k)
MapRemove(k) ==
    /\ map' = EasyMap_remove(map, k).self
    /\ mout' = EasyMap_remove(map, k).out
    /\ pre' = map /\ mop' = "remove" /\ margs' = <<k>>
    /\ ref' = <<>> /\ fresh' = FALSE
    /\ UNCHANGED <<d0, written, setVars, convVars>>

Index_inserting(k) ==
    /\ map' = index_mut(map, k)
    /\ mout' = <<index(map, k)>>
    /\ pre' = map /\ mop' = "index" /\ margs' = <<k>>
    /\ ref' = <<>> /\ fresh' = FALSE
    /\ UNCHANGED <<d0, written, setVars, convVars>>

\* map[k] read: index takes &self, so the map is not written
Index(k) ==
    /\ mout' = <<index(map, k)>>
    /\ pre' = map /\ mop' = "index" /\ margs' = <<k>>
    /\ ref' = <<>> /\ fresh' = FALSE
    /\ UNCHANGED <<map, d0, written, setVars, convVars>>

\* let r = &mut map[k]: the reference stays live until another use of map
IndexMut(k) ==
    /\ map' = index_mut(map, k)
    /\ mout' = <<>>
    /\ pre' = map /\ mop' = "index_mut" /\ margs' = <<k>>
    /\ ref' = <<k>> /\ fresh' = (k \notin DOMAIN map.inner)
    /\ UNCHANGED <<d0, written, setVars, convVars>>

\* *r = v through the live reference; `map[k] = v` is IndexMut(k) then Write(v)
Write(v) ==
    /\ ref # <<>>
    /\ map' = write(map, ref[1], v)
    /\ mout' = <<>>
    /\ pre' = map /\ mop' = "write" /\ margs' = <<ref[1], v>>
    /\ ref' = ref /\ fresh' = fresh /\ written' = written \cup {ref[1]}
    /\ UNCHANGED <<d0, setVars, convVars>>

MapNext ==
    \/ \E k \in Keys, v \in Vals : MapInsert(k, v)
    \/ \E k \in Keys : MapRemove(k)
    \/ \E k \in Keys : Index(k)
    \/ \E k \in Keys : IndexMut(k)
    \/ \E v \in Vals : Write(v)

\* -------------------------------------------------- conversion actions
\* EasyMap::from(vec)
ConvFromVec ==
    /\ conv' = From_Vec(vec) /\ cop' = "from_vec"
    /\ UNCHANGED <<vec, setVars, mapVars>>

\* EasyMap::from(&vec[..])
ConvFromSlice ==
    /\ conv' = From_slice(vec) /\ cop' = "from_slice"
    /\ UNCHANGED <<vec, setVars, mapVars>>

\* vec.into_iter().collect::<EasyMap<_, _>>()
ConvFromIter ==
    /\ conv' = EasyMap_from_iter(vec) /\ cop' = "from_iter"
    /\ UNCHANGED <<vec, setVars, mapVars>>

ConvNext == ConvFromVec \/ ConvFromSlice \/ ConvFromIter

\* ------------------------------------------------------ specifications
Init == SetInit /\ MapInitWith(TypeDefault) /\ ConvInitWith(<<>>)

SpecSet == Init /\ [][SetNext]_vars

MapInit == SetInit /\ (\E d \in Vals : MapInitWith(d)) /\ ConvInitWith(<<>>)

SpecMap == MapInit /\ [][MapNext]_vars

ConvInit ==
    SetInit /\ MapInitWith(TypeDefault) /\ (\E v \in SeqsUpTo(Pairs, MaxLen) : ConvInitWith(v))

SpecConv == ConvInit /\ [][ConvNext]_vars

Next == SetNext \/ MapNext \/ ConvNext

Spec == Init /\ [][Next]_vars

\* ---------------------------------------------------------- EasySet claims
StrictSubset(A, B) == (\A x \in A : x \in B) /\ A # B

\* C1: cmp(A, B) = Less (A < B) if and only if A is a strict subset of B;
\* in particular A < A never holds.
C1_LessIffStrictSubset ==
    sop = "cmp" =>
        /\ (sout = "Less") <=> StrictSubset(a, b)
        /\ lt(a, b) <=> StrictSubset(a, b)
        /\ ~lt(a, a)

\* C2: cmp(A, B) = Greater (A > B) if and only if A is a strict superset of B.
C2_GreaterIffStrictSuperset ==
    sop = "cmp" =>
        /\ (sout = "Greater") <=> StrictSubset(b, a)
        /\ gt(a, b) <=> StrictSubset(b, a)

C2_Witness ==
    /\ sop = "cmp" /\ sout = "Greater"
    /\ b # {} /\ Cardinality(a) = Cardinality(b) + 1

Incomparable(A, B) == (\E x \in A : x \notin B) /\ (\E x \in B : x \notin A)

\* C3: when A is neither a subset nor a superset of B, cmp(A, B) is Equal
\* (neither A < B nor A > B) while A == B is false.
C3_IncomparableIsEqual ==
    (sop = "cmp" /\ Incomparable(a, b)) =>
        /\ sout = "Equal"
        /\ ~lt(a, b) /\ ~gt(a, b)
        /\ ~eq(a, b)

C3_Witness ==
    /\ sop = "cmp" /\ Incomparable(a, b) /\ sout = "Equal"
    /\ a \cap b # {}

\* C7: toggle(k) returns whether k was in S before the call, flips the
\* membership of k, leaves every other key's membership unchanged, and a
\* second toggle(k) restores S.
C7_Toggle ==
    sop = "toggle" =>
        LET k == sargs[1]
        IN  /\ sout = (k \in pa)
            /\ (k \in a) <=> (k \notin pa)
            /\ \A x \in Keys \ {k} : (x \in a) <=> (x \in pa)
            /\ toggle(a, k).self = pa
            /\ toggle(a, k).out = ~sout

C7_Witness ==
    /\ sop = "toggle" /\ sargs[1] \in pa /\ sout = TRUE
    /\ Cardinality(pa) >= 2

\* C8: A & B, A | B, A ^ B and A - B are the keys in both, in either, in
\* exactly one, and in A but not B; the operands are left unchanged.
C8_BitOps ==
    sop \in BitOps =>
        /\ a = pa /\ b = pb
        /\ sop = "bitand" => sout = {x \in Keys : x \in pa /\ x \in pb}
        /\ sop = "bitor" => sout = {x \in Keys : x \in pa \/ x \in pb}
        /\ sop = "bitxor" => sout = {x \in Keys : (x \in pa) # (x \in pb)}
        /\ sop = "sub" => sout = {x \in Keys : x \in pa /\ x \notin pb}

C8_Witness ==
    /\ sop = "bitxor" /\ sout # {}
    /\ pa \cap pb # {} /\ pa \ pb # {} /\ pb \ pa # {}

\* C9: each of A &= B, A |= B, A ^= B, A -= B replaces A with the result of
\* the non-assigning operator on the original A and B.
C9_BitOpAssigns ==
    sop \in BitOpAssigns =>
        /\ b = pb
        /\ sop = "bitand_assign" => a = bitand(pa, pb)
        /\ sop = "bitor_assign" => a = bitor(pa, pb)
        /\ sop = "bitxor_assign" => a = bitxor(pa, pb)
        /\ sop = "sub_assign" => a = sub(pa, pb)

C9_Witness ==
    /\ sop = "sub_assign" /\ a # pa /\ a # {} /\ pb \ pa # {}

\* ---------------------------------------------------------- EasyMap claims
\* C4: a key that has not been inserted (or assigned) reads the default D
\* the map was created with, and right after M[k] = v a read of M[k] is v.
C4_DefaultMapLaw ==
    /\ \A k \in Keys \ written : index(map, k) = d0
    /\ (mop = "index" /\ margs[1] \notin written) => mout = <<d0>>
    /\ mop = "write" => index(map, margs[1]) = margs[2]

C4_Witness ==
    /\ mop = "write" /\ margs[2] # d0
    /\ \E k \in Keys \ written : k \in DOMAIN map.inner
    /\ \E k \in Keys \ written : k \notin DOMAIN map.inner

\* C5: an indexed read map[key] leaves the present keys, the stored values
\* and the default as they were, and yields the stored value of a present
\* key and the default otherwise.
C5_IndexReadsOnly ==
    mop = "index" =>
        LET k == margs[1]
        IN  /\ DOMAIN map.inner = DOMAIN pre.inner
            /\ \A x \in DOMAIN pre.inner : map.inner[x] = pre.inner[x]
            /\ map.default = pre.default
            /\ mout = IF k \in DOMAIN pre.inner THEN <<pre.inner[k]>> ELSE <<pre.default>>

C5_Witness ==
    /\ mop = "index" /\ margs[1] \notin DOMAIN map.inner
    /\ DOMAIN map.inner # {} /\ mout = <<map.default>>

\* C6: &mut M[k] for an absent k inserts k with the default D, nothing else
\* changing, even when nothing is written through the reference; for a
\* present k the stored values and the key set stay as they were.
C6_IndexMutInsertsDefault ==
    mop = "index_mut" =>
        LET k == margs[1]
        IN  /\ DOMAIN map.inner = DOMAIN pre.inner \cup {k}
            /\ \A x \in DOMAIN pre.inner : map.inner[x] = pre.inner[x]
            /\ k \notin DOMAIN pre.inner => map.inner[k] = pre.default
            /\ map.default = pre.default

C6_Witness ==
    /\ mop = "index_mut" /\ margs[1] \notin DOMAIN pre.inner
    /\ get(map.inner, margs[1]) = <<d0>>
    /\ \E x \in DOMAIN pre.inner : pre.inner[x] # d0

\* C11: the default is the one given at construction after any sequence of
\* insert, remove, indexed read, index_mut and writes through its reference;
\* after a write through &mut M[k] for a previously absent k every absent
\* key still reads that default.
C11_DefaultFixed ==
    /\ map.default = d0
    /\ (mop = "write" /\ fresh) =>
           \A x \in Keys \ DOMAIN map.inner : index(map, x) = d0
    /\ (mop = "index" /\ margs[1] \notin DOMAIN map.inner) => mout = <<d0>>

C11_Witness ==
    /\ mop = "write" /\ fresh /\ margs[2] # d0
    /\ index(map, margs[1]) = margs[2]
    /\ Keys \ DOMAIN map.inner # {}
    /\ \E x \in DOMAIN map.inner \ {margs[1]} : map.inner[x] # d0

\* ------------------------------------------------------- conversion claims
LastIndexOf(s, k) == CHOOSE i \in DOMAIN s : s[i][1] = k /\ \A j \in DOMAIN s : j > i => s[j][1] # k

\* C10: converting a sequence of pairs yields a map whose keys are the keys
\* of the sequence, each mapped to the value of its last occurrence, with
\* the value type's default as the default.
C10_FromPairs ==
    cop # "none" =>
        /\ DOMAIN conv.inner = {vec[i][1] : i \in DOMAIN vec}
        /\ \A k \in DOMAIN conv.inner : conv.inner[k] = vec[LastIndexOf(vec, k)][2]
        /\ conv.default = TypeDefault

C10_Witness ==
    /\ cop = "from_vec"
    /\ \E i, j \in DOMAIN vec : i < j /\ vec[i][1] = vec[j][1] /\ vec[i][2] # vec[j][2]
    /\ Cardinality(DOMAIN conv.inner) >= 2

=============================================================================
